---- MODULE Spec2Model ----
(***************************************************************************)
(* A model of the OpenTelemetry layer for `tracing` in                      *)
(* src/src/opentelemetry_sdk.rs: the per-span OTelSpan records kept in the  *)
(* registry's extension slots, the Layer callbacks (on_new_span, on_record, *)
(* on_event, on_close), the OtelSpanExt methods (set_parent,                *)
(* extract_jaeger_propagation) and the jaeger header parser.                *)
(*                                                                          *)
(* Strings are sequences of one-character strings.  Option<T> is a sequence *)
(* of length 0 (None) or 1 (Some).  The u128 / u64 widths of TraceId and    *)
(* SpanId are scaled down to TraceBits / SpanBits bits, because the model   *)
(* checker's integers are 32 bits wide; overflow of the decimal parser      *)
(* happens at the scaled widths exactly as it does at the real ones.        *)
(* SystemTime stamps are kept as the creation order of the span.            *)
(***************************************************************************)
EXTENDS Integers, Sequences, FiniteSets, TLC

\* ------------------------------------------------------------------ bounds
\* Number of spans the host creates in one run of the full layer (Spec,
\* SpecPropagation), and in one run of the span tree (SpecChain).
MaxSpans == 2
MaxChain == 3
\* Number of worker threads that deliver callbacks concurrently.
MaxWorkers == 2
\* Width of TraceId (u128 in the source), scaled.
TraceBits == 7
\* Width of SpanId (u64 in the source), scaled.
SpanBits == 4

U128Max == 2 ^ TraceBits - 1
U64Max == 2 ^ SpanBits - 1

\* ------------------------------------------------------------ text helpers
Digit == <<"0", "1", "2", "3", "4", "5", "6", "7", "8", "9">>

IsDigit(c) == \E i \in 1..10 : Digit[i] = c

to_digit(c) == (CHOOSE i \in 1..10 : Digit[i] = c) - 1

\* Display of an unsigned integer, as format!("{}", n) prints it.
RECURSIVE to_string(_)
to_string(n) ==
    IF n < 10 THEN << Digit[n + 1] >>
    ELSE to_string(n \div 10) \o << Digit[(n % 10) + 1] >>

\* str::split(':'): the fields between the colons; the empty string has one
\* (empty) field.
RECURSIVE split(_)
split(s) ==
    IF s = << >> THEN << << >> >>
    ELSE LET rest == split(Tail(s))
         IN  IF Head(s) = ":" THEN << << >> >> \o rest
             ELSE << << Head(s) >> \o Head(rest) >> \o Tail(rest)

Ok(v) == [ok |-> TRUE, val |-> v]
Err == [ok |-> FALSE, val |-> 0]

\* A digit loop whose overflow check is off by one: the largest value of the
\* type is rejected.
RECURSIVE parse_digits_strict(_, _, _)
parse_digits_strict(s, acc, max) ==
    IF s = << >> THEN Ok(acc)
    ELSE IF ~IsDigit(Head(s)) THEN Err
    ELSE LET v == acc * 10 + to_digit(Head(s))
         IN  IF v >= max THEN Err ELSE parse_digits_strict(Tail(s), v, max)

\* The digit loop of from_str_radix: multiply by ten and add, checked
\* against the width of the type.
RECURSIVE parse_digits(_, _, _)
parse_digits(s, acc, max) ==
    IF s = << >> THEN Ok(acc)
    ELSE IF ~IsDigit(Head(s)) THEN Err
    ELSE LET v == acc * 10 + to_digit(Head(s))
         IN  IF v > max THEN Err ELSE parse_digits(Tail(s), v, max)

\* uN::from_str_radix(src, 10) for an unsigned type whose largest value is
\* max: empty input and a lone sign are errors, one leading "+" is accepted.
from_str_radix(src, max) ==
    IF src = << >> THEN Err
    ELSE IF src = << "+" >> \/ src = << "-" >> THEN Err
    ELSE parse_digits(IF Head(src) = "+" THEN Tail(src) ELSE src, 0, max)

unwrap_or(r, d) == IF r.ok THEN r.val ELSE d

\* parse_jaeger_trace_id: (TraceId, SpanId) of a header value.
parse_jaeger_trace_id(header_value) ==
    LET parts == split(header_value)
    IN  IF Len(parts) # 4
        THEN [trace_id |-> 0, span_id |-> 0]
        ELSE [trace_id |-> unwrap_or(from_str_radix(parts[1], U128Max), 0),
              span_id  |-> unwrap_or(from_str_radix(parts[2], U64Max), 0)]

\* ------------------------------------------------------------------ options
None == << >>
Some(v) == << v >>
unwrap_or_default(o) == IF o = None THEN 0 ELSE o[1]

\* ------------------------------------------------------------------- maps
EmptyMap == [x \in {} |-> 0]
insert(m, k, v) == [x \in DOMAIN m \cup {k} |-> IF x = k THEN v ELSE m[x]]
remove(m, k) == [x \in DOMAIN m \ {k} |-> m[x]]

\* --------------------------------------------------------------- the sampler
\* Implementations of the ShouldSample trait.  OTelSampler is the one the
\* source ships; TraceIdRatio stands for the substitutable deterministic
\* policies, which decide from the trace id.
Samplers == {"OTelSampler", "TraceIdRatio"}

should_sample(smp, trace_id) ==
    IF smp = "OTelSampler" THEN TRUE ELSE trace_id % 2 = 1

EventExportModes == {"SpanEvent", "LogRecord"}

\* ------------------------------------------------------------------ inputs
Ids == 1..MaxChain
NoId == 0

\* The worker threads, and the holder of a lock nobody holds.
Workers == 1..MaxWorkers
NoWorker == 0

\* A worker with no callback in flight.
Idle == [pc |-> "idle", op |-> "none", id |-> NoId, parent |-> NoId, left |-> 0]

\* Values the thread-local generator may draw for a trace id (a sample of
\* the id space), and for the span id of the n-th span: span ids are drawn
\* distinct, as they are with overwhelming probability.
GenTraceIds == {10, 21}
GenSpanIds(n) == {n + 9}

SpanName == "Main Span"

\* The fields a span is created with and the field sets a record call
\* carries, as in main.rs.
ValueSets == { insert(EmptyMap, "attribute1", "v1") }
RecordSets == { insert(EmptyMap, "attribute3", "value3") }

\* The field sets Span::record may carry: any of the declared fields, each
\* with any of the values.
AttrKeys == {"attribute1", "attribute3"}
AttrValues == {"v1", "value3"}
FieldUpdates == UNION { [K -> AttrValues] : K \in SUBSET AttrKeys \ {{}} }

\* Header values that arrive from outside: the well-formed header of
\* examples/simple.rs (scaled) and a malformed one.
RemoteHeader == << "3", "3", ":", "1", "4", ":", "0", ":", "1" >>
GarbageHeader == << "x" >>
StaticHeaders == {RemoteHeader, GarbageHeader}

\* ------------------------------------------------------------------- state
VARIABLES
    sampler,            \* OpenTelemetrySdk.sampler
    event_export_mode,  \* OpenTelemetrySdk.event_export_mode
    live,               \* span ids the host registry holds
    stack,              \* the thread's stack of entered spans (top is last)
    nextId,             \* the next span id the registry hands out
    records,            \* span id -> the OTelSpan in its extension slot
    fault,              \* an expect() failed: the callback panicked
    stdout,             \* the lines the last callback printed
    wire,               \* the header last built by extract_jaeger_propagation
    samplerCalls,       \* ghost: number of should_sample invocations
    rootsCreated,       \* ghost: number of spans created with no current span
    hist,               \* ghost: span id -> how the span came to its identity
    wireSrc,            \* ghost: the record `wire` was built from, if any
    onEnd,              \* ghost: the last on_close reached the OnEnd hook
    header,             \* codec run: the header value given to the parser
    origin,             \* codec run: the numbers the header was printed from
    parsed,             \* codec run: what parse_jaeger_trace_id returned
    cpc,                \* codec run: position ("start", "parsed")
    extensions,         \* span id -> the worker holding its extensions lock
    inflight            \* worker -> the callback it runs and its position

layer == << sampler, event_export_mode >>
host == << live, stack, nextId >>
ghost == << samplerCalls, rootsCreated, hist, wireSrc, onEnd >>
codec == << header, origin, parsed, cpc >>
workers == << extensions, inflight >>
vars == << layer, host, records, fault, stdout, wire, ghost, codec, workers >>

\* ctx.current_span(): the top of the thread's span stack.
current_span == IF stack = << >> THEN NoId ELSE stack[Len(stack)]

InStack(id) == \E i \in 1..Len(stack) : stack[i] = id

\* ------------------------------------------------------------ the records
\* OTelSpan::new; span_id is the generator's draw, the stamps the clock.
OTelSpan_new(name, trace_id, parent_span_id, is_recording, span_id, now) ==
    [name |-> name,
     trace_id |-> trace_id,
     span_id |-> span_id,
     parent_span_id |-> parent_span_id,
     start_time |-> now,
     end_time |-> now,
     attributes |-> EmptyMap,
     is_recording |-> is_recording]

\* A visitor that keeps the value a key already has.
record_first_wins(span, values) ==
    [span EXCEPT !.attributes =
        [k \in DOMAIN span.attributes \cup DOMAIN values |->
            IF k \in DOMAIN span.attributes THEN span.attributes[k] ELSE values[k]]]

\* Visit for OTelSpan: every visited field is inserted into the attributes.
record(span, values) ==
    [span EXCEPT !.attributes =
        [k \in DOMAIN span.attributes \cup DOMAIN values |->
            IF k \in DOMAIN values THEN values[k] ELSE span.attributes[k]]]

\* on_new_span, parent branch: the record built for a span whose parent
\* record is parent_span.
ChildSpan(parent_span, smp, attrs, span_id, now) ==
    LET parent_trace_id == parent_span.trace_id
        parent_span_id == parent_span.span_id
        sampling_result == should_sample(smp, parent_trace_id)
    IN  record(OTelSpan_new(SpanName, parent_trace_id, Some(parent_span_id),
                            sampling_result, span_id, now), attrs)

\* A root branch that asks the sampler before the trace id is generated,
\* about the default trace id.
RootSpan_sample_default(trace_id_to_be_created_span, smp, attrs, span_id, now) ==
    LET sampling_result == should_sample(smp, 0)
    IN  record(OTelSpan_new(SpanName, trace_id_to_be_created_span, None,
                            sampling_result, span_id, now), attrs)

\* on_new_span, root branch: the record built when no span is current.
RootSpan(trace_id_to_be_created_span, smp, attrs, span_id, now) ==
    LET sampling_result == should_sample(smp, trace_id_to_be_created_span)
    IN  record(OTelSpan_new(SpanName, trace_id_to_be_created_span, None,
                            sampling_result, span_id, now), attrs)

\* An override that sets the parent span id and forgets the trace id.
SetParentSpan_parent_only(otel_span, jaeger_format) ==
    LET p == parse_jaeger_trace_id(jaeger_format)
    IN  [otel_span EXCEPT !.parent_span_id = Some(p.span_id)]

\* An override that also takes the sampling decision from the header's
\* fourth field.
SetParentSpan_takes_flag(otel_span, jaeger_format) ==
    LET p == parse_jaeger_trace_id(jaeger_format)
        parts == split(jaeger_format)
    IN  [otel_span EXCEPT !.trace_id = p.trace_id,
                          !.parent_span_id = Some(p.span_id),
                          !.is_recording = (Len(parts) = 4 /\ parts[4] = << "1" >>)]

\* The two assignments of set_parent, given the parsed pair.
PatchSpan(otel_span, p) ==
    [otel_span EXCEPT !.trace_id = p.trace_id,
                      !.parent_span_id = Some(p.span_id)]

\* set_parent: the record after the override with a header value.
SetParentSpan(otel_span, jaeger_format) ==
    PatchSpan(otel_span, parse_jaeger_trace_id(jaeger_format))

\* with_otel_span applied to a span handle: f's result on the stored
\* record, or None when the handle has no record (disabled span).
HasRecord(id) == id \in DOMAIN records

tract_id(id) == unwrap_or_default(IF HasRecord(id) THEN Some(records[id].trace_id) ELSE None)
span_id(id) == unwrap_or_default(IF HasRecord(id) THEN Some(records[id].span_id) ELSE None)
parent_span_id(id) == unwrap_or_default(IF HasRecord(id) THEN records[id].parent_span_id ELSE None)

\* A header whose third field is left empty when the span has no parent.
extract_jaeger_propagation_empty_parent(id) ==
    to_string(tract_id(id)) \o << ":" >> \o to_string(span_id(id)) \o << ":" >>
        \o (IF parent_span_id(id) = 0 THEN << >> ELSE to_string(parent_span_id(id)))
        \o << ":" >> \o to_string(1)

\* A header that carries the span's own parent where its span id belongs.
extract_jaeger_propagation_parent_first(id) ==
    to_string(tract_id(id)) \o << ":" >> \o to_string(parent_span_id(id)) \o << ":" >>
        \o to_string(span_id(id)) \o << ":" >> \o to_string(1)

\* extract_jaeger_propagation: "{}:{}:{}:{}" of the three ids and 1.
extract_jaeger_propagation(id) ==
    to_string(tract_id(id)) \o << ":" >> \o to_string(span_id(id)) \o << ":" >>
        \o to_string(parent_span_id(id)) \o << ":" >> \o to_string(1)

\* ------------------------------------------------------------------ ghosts
\* What is remembered of a span's history: the span that was current when it
\* was created (lparent) and that span's span_id at that instant (pspan),
\* the trace id the new span was to take (trace0: the parent's, or the
\* generator's draw), the trace id of the header set_parent last gave it
\* (injected), whether set_parent was applied after a child of it had been
\* created (late), and the record the last header it was given had been
\* built from (src).
Born(lparent, pspan, trace0) ==
    [lparent |-> lparent, pspan |-> pspan, trace0 |-> trace0,
     injected |-> None, late |-> FALSE, src |-> None]

HasChild(id) == \E c \in DOMAIN hist : hist[c].lparent = id

Identity(span) ==
    [trace_id |-> span.trace_id, span_id |-> span.span_id,
     parent_span_id |-> span.parent_span_id, is_recording |-> span.is_recording]

\* -------------------------------------------------------------------- Init
Init ==
    /\ sampler \in Samplers
    /\ event_export_mode \in EventExportModes
    /\ live = {}
    /\ stack = << >>
    /\ nextId = 1
    /\ records = EmptyMap
    /\ fault = FALSE
    /\ stdout = << >>
    /\ wire = << >>
    /\ samplerCalls = 0
    /\ rootsCreated = 0
    /\ hist = EmptyMap
    /\ wireSrc = None
    /\ onEnd = FALSE
    /\ header = << >>
    /\ origin = None
    /\ parsed = None
    /\ cpc = "idle"
    /\ extensions = [id \in Ids |-> NoWorker]
    /\ inflight = [w \in Workers |-> Idle]

\* A failed expect(): the callback panics and nothing else is done.
Panic ==
    /\ fault' = TRUE
    /\ UNCHANGED << layer, host, records, stdout, wire, ghost, codec, workers >>

\* ----------------------------------------------------------- the callbacks
\* Layer::on_new_span for the span the registry has just created.
on_new_span(trace_draw, span_draw, attrs) ==
    /\ ~fault
    /\ LET id == nextId
           parent_id == current_span
       IN  IF parent_id # NoId /\ ~HasRecord(parent_id)
           THEN Panic
           ELSE /\ IF parent_id # NoId
                   THEN /\ records' = insert(records, id,
                                ChildSpan(records[parent_id], sampler, attrs, span_draw, nextId))
                        /\ hist' = insert(hist, id, Born(parent_id, Some(records[parent_id].span_id),
                                                          records[parent_id].trace_id))
                        /\ UNCHANGED rootsCreated
                   ELSE /\ records' = insert(records, id,
                                RootSpan(trace_draw, sampler, attrs, span_draw, nextId))
                        /\ hist' = insert(hist, id, Born(NoId, None, trace_draw))
                        /\ rootsCreated' = rootsCreated + 1
                /\ samplerCalls' = samplerCalls + 1
                /\ live' = live \cup {id}
                /\ nextId' = nextId + 1
                /\ stdout' = << >>
                /\ UNCHANGED << layer, stack, fault, wire, wireSrc, onEnd, codec, workers >>

\* Span::enter and the drop of its guard: the host's span stack.
Enter(id) ==
    /\ ~fault
    /\ id \in live
    /\ ~InStack(id)
    /\ stack' = Append(stack, id)
    /\ UNCHANGED << layer, live, nextId, records, fault, stdout, wire, ghost, codec, workers >>

Exit ==
    /\ ~fault
    /\ stack # << >>
    /\ stack' = SubSeq(stack, 1, Len(stack) - 1)
    /\ UNCHANGED << layer, live, nextId, records, fault, stdout, wire, ghost, codec, workers >>

\* A close that also drops the records of the closed span's children.
CloseStore_cascade(store, id) ==
    [x \in { y \in DOMAIN store \ {id} :
                store[y].parent_span_id # Some(store[id].span_id) } |-> store[x]]

\* The remaining store after on_close took the record of id out.
CloseStore(store, id) == remove(store, id)

\* A close that prints the finished record of a sampled span only.
CloseLines_recording_only(span, now) ==
    IF span.is_recording
    THEN << [kind |-> "Span", span |-> [span EXCEPT !.end_time = now]] >>
    ELSE << >>

\* What on_close prints: the removed record, its end_time stamped.
CloseLines(span, now) ==
    << [kind |-> "Span", span |-> [span EXCEPT !.end_time = now]] >>

\* Layer::on_close: the record is removed, stamped and printed; the block
\* where the span processors' OnEnd is to be called is entered only for a
\* recording span.
on_close(id) ==
    /\ ~fault
    /\ id \in live
    /\ ~InStack(id)
    /\ IF ~HasRecord(id)
       THEN Panic
       ELSE /\ records' = CloseStore(records, id)
            /\ stdout' = CloseLines(records[id], nextId)
            /\ onEnd' = records[id].is_recording
            /\ live' = live \ {id}
            /\ UNCHANGED << layer, stack, nextId, fault, wire, samplerCalls,
                            rootsCreated, hist, wireSrc, codec, workers >>

\* Layer::on_record: the new field values are visited into the record; both
\* lookups are expect()ed, the span in the registry and the record in its
\* extensions.
on_record(id, values) ==
    /\ ~fault
    /\ IF id \notin live \/ ~HasRecord(id)
       THEN Panic
       ELSE /\ records' = [records EXCEPT ![id] = record(@, values)]
            /\ stdout' = << >>
            /\ UNCHANGED << layer, host, fault, wire, ghost, codec, workers >>

\* An owner lookup that prefers the current span to the explicit parent.
EventSpan_current_first(ev) ==
    IF current_span # NoId THEN current_span
    ELSE IF ev.parent # None /\ ev.parent[1] \in live THEN ev.parent[1]
    ELSE NoId

\* The span an event belongs to: its explicit parent if the registry still
\* holds it, else the current span if the event is contextual.
EventSpan(ev) ==
    IF ev.parent # None /\ ev.parent[1] \in live THEN ev.parent[1]
    ELSE IF ev.contextual THEN current_span
    ELSE NoId

\* A routing in which the log record is gated by sampling as well.
EventLines_gated(mode, existing_span) ==
    IF ~existing_span.is_recording THEN << >>
    ELSE IF mode = "SpanEvent"
    THEN << [kind |-> "SpanEvent", span_id |-> existing_span.span_id] >>
    ELSE << [kind |-> "LogRecord", span_id |-> existing_span.span_id] >>

\* What on_event prints for an event owned by existing_span.
EventLines(mode, existing_span) ==
    IF mode = "SpanEvent"
    THEN IF existing_span.is_recording
         THEN << [kind |-> "SpanEvent", span_id |-> existing_span.span_id] >>
         ELSE << >>
    ELSE << [kind |-> "LogRecord", span_id |-> existing_span.span_id] >>

Events ==
    { [parent |-> Some(id), contextual |-> FALSE] : id \in Ids }
        \cup { [parent |-> None, contextual |-> c] : c \in BOOLEAN }

\* Layer::on_event.
on_event(ev) ==
    /\ ~fault
    /\ LET owner == EventSpan(ev)
       IN  IF owner = NoId
           THEN /\ stdout' = << >>
                /\ UNCHANGED << layer, host, records, fault, wire, ghost, codec, workers >>
           ELSE IF ~HasRecord(owner)
           THEN Panic
           ELSE /\ stdout' = EventLines(event_export_mode, records[owner])
                /\ UNCHANGED << layer, host, records, fault, wire, ghost, codec, workers >>

\* --------------------------------------------------------- the span methods
\* Headers a process may hand to set_parent: the static ones and the one
\* last built by extract_jaeger_propagation.
InboundHeaders == StaticHeaders \cup (IF wire = << >> THEN {} ELSE {wire})

\* A store in which the override of a span also moves the spans that name
\* it as their parent into the new trace.
SetParentStore_cascade(store, id, jaeger_format) ==
    [x \in DOMAIN store |->
        IF x = id THEN SetParentSpan(store[x], jaeger_format)
        ELSE IF store[x].parent_span_id = Some(store[id].span_id)
        THEN [store[x] EXCEPT !.trace_id = parse_jaeger_trace_id(jaeger_format).trace_id]
        ELSE store[x]]

\* The store after set_parent patched the record in the slot of id.
SetParentStore(store, id, jaeger_format) ==
    [store EXCEPT ![id] = SetParentSpan(@, jaeger_format)]

\* OtelSpanExt::set_parent on the handle of a live span.
set_parent(id, jaeger_format) ==
    /\ ~fault
    /\ id \in live
    /\ IF HasRecord(id)
       THEN /\ records' = SetParentStore(records, id, jaeger_format)
            /\ hist' = [hist EXCEPT ![id] =
                    [@ EXCEPT !.injected = Some(parse_jaeger_trace_id(jaeger_format).trace_id),
                              !.late = @ \/ HasChild(id),
                              !.src = IF jaeger_format = wire THEN wireSrc ELSE None]]
       ELSE UNCHANGED << records, hist >>
    /\ stdout' = << >>
    /\ UNCHANGED << layer, host, fault, wire, samplerCalls, rootsCreated, wireSrc, onEnd, codec, workers >>

\* OtelSpanExt::extract_jaeger_propagation on a span handle; NoId is the
\* handle of a disabled span, which has no record.
extract(id) ==
    /\ ~fault
    /\ id \in live \cup {NoId}
    /\ wire' = extract_jaeger_propagation(id)
    /\ wireSrc' = IF HasRecord(id) THEN Some(Identity(records[id])) ELSE None
    /\ stdout' = << >>
    /\ UNCHANGED << layer, host, records, fault, samplerCalls, rootsCreated, hist, onEnd, codec, workers >>

\* The layer in one process: every callback, and set_parent with the
\* headers that arrive from outside.
Next ==
    \/ \E t \in GenTraceIds, s \in GenSpanIds(nextId), a \in ValueSets :
            nextId <= MaxSpans /\ on_new_span(t, s, a)
    \/ \E id \in Ids : Enter(id)
    \/ Exit
    \/ \E id \in Ids : on_close(id)
    \/ \E id \in Ids, v \in RecordSets : id \in live /\ on_record(id, v)
    \/ \E ev \in Events : on_event(ev)
    \/ \E id \in Ids, h \in StaticHeaders : set_parent(id, h)

Spec == Init /\ [][Next]_vars

\* The span tree: the operations that read or write a record's identity,
\* for trees of up to MaxChain spans.
InitChain == Init /\ event_export_mode = "SpanEvent"

NextChain ==
    \/ \E t \in GenTraceIds, s \in GenSpanIds(nextId), a \in ValueSets :
            nextId <= MaxChain /\ on_new_span(t, s, a)
    \/ \E id \in Ids : Enter(id)
    \/ Exit
    \/ \E id \in Ids : on_close(id)
    \/ \E id \in Ids, h \in StaticHeaders : set_parent(id, h)

SpecChain == InitChain /\ [][NextChain]_vars

\* Propagation: headers built by extract_jaeger_propagation are handed to
\* set_parent, as between the client and the server of the examples, whose
\* spans are created with no span entered.
NextPropagation ==
    \/ \E t \in GenTraceIds, s \in GenSpanIds(nextId), a \in ValueSets :
            nextId <= MaxSpans /\ on_new_span(t, s, a)
    \/ \E id \in Ids : on_close(id)
    \/ \E id \in Ids \cup {NoId} : extract(id)
    \/ \E id \in Ids, h \in InboundHeaders : set_parent(id, h)

SpecPropagation == InitChain /\ [][NextPropagation]_vars

\* Recording: fields are recorded on live spans in any order, with repeated
\* keys and repeated values.
NextRecord ==
    \/ \E t \in GenTraceIds, s \in GenSpanIds(nextId), a \in ValueSets :
            nextId <= MaxSpans /\ on_new_span(t, s, a)
    \/ \E id \in Ids : on_close(id)
    \/ \E id \in Ids, v \in FieldUpdates : id \in live /\ on_record(id, v)

SpecRecord == Init /\ [][NextRecord]_vars

\* A host that breaks the protocol: on_record is delivered for span ids the
\* registry does not hold (not yet created, or closed).
NextStale ==
    \/ \E t \in GenTraceIds, s \in GenSpanIds(nextId), a \in ValueSets :
            nextId <= MaxSpans /\ on_new_span(t, s, a)
    \/ \E id \in Ids : on_close(id)
    \/ \E id \in Ids, v \in RecordSets : on_record(id, v)

SpecStale == Init /\ [][NextStale]_vars

\* Every operation on the records of one process: the callbacks, set_parent
\* and extract_jaeger_propagation.
NextFrame ==
    \/ \E t \in GenTraceIds, s \in GenSpanIds(nextId), a \in ValueSets :
            nextId <= MaxSpans /\ on_new_span(t, s, a)
    \/ \E id \in Ids : Enter(id)
    \/ Exit
    \/ \E id \in Ids : on_close(id)
    \/ \E id \in Ids, v \in RecordSets : id \in live /\ on_record(id, v)
    \/ \E ev \in Events : on_event(ev)
    \/ \E id \in Ids, h \in StaticHeaders : set_parent(id, h)
    \/ \E id \in Ids \cup {NoId} : extract(id)

SpecFrame == Init /\ [][NextFrame]_vars

\* ---------------------------------------------------------- the slot locks
\* The callbacks as the workers of the host run them: extensions_mut() takes
\* the lock of a span's extension slot and the guard is dropped when the
\* callback returns.  What the callbacks print is followed in Spec; here the
\* store and the locks are.
SlotCallbacks ==
    {"on_record", "on_event", "on_close", "set_parent", "extract_jaeger_propagation"}

\* A callback for span id is in flight; a child of id is being created; id
\* is being closed.
Busy(id) == \E w \in Workers : inflight[w].pc # "idle" /\ inflight[w].id = id
CreatingUnder(id) ==
    \E w \in Workers : inflight[w].op = "on_new_span" /\ inflight[w].parent = id
Closing(id) ==
    \E w \in Workers : inflight[w].op = "on_close" /\ inflight[w].id = id

\* The slots whose lock worker w holds.
Held(w) == { id \in Ids : extensions[id] = w }

\* A second lookup that names the new span again instead of its parent.
ParentSlot_own(cb) == cb.id

\* The slot on_new_span locks second: the one of the current span.
ParentSlot(cb) == cb.parent

\* The slot worker w is about to lock, if any.
Wanted(w) ==
    IF inflight[w].pc = "lock_span" THEN inflight[w].id
    ELSE IF inflight[w].pc = "lock_parent" THEN ParentSlot(inflight[w])
    ELSE NoId

\* The guards of worker w go out of scope.
drop(locks, w) == [id \in Ids |-> IF locks[id] = w THEN NoWorker ELSE locks[id]]

\* The registry creates a span while the span p is current on worker w (or
\* none is) and calls on_new_span: p has been created and, being entered,
\* is not closing.
StartNewSpan(w, p) ==
    /\ ~fault
    /\ inflight[w] = Idle
    /\ p # NoId => (p \in live /\ HasRecord(p) /\ ~Closing(p))
    /\ inflight' = [inflight EXCEPT ![w] =
            [pc |-> "lock_span", op |-> "on_new_span", id |-> nextId,
             parent |-> p, left |-> 1]]
    /\ nextId' = nextId + 1
    /\ UNCHANGED << layer, live, stack, records, fault, stdout, wire, ghost,
                    codec, extensions >>

\* The host delivers a callback for the live span id to worker w, or user
\* code on w calls a span method; one callback per span id is in flight, and
\* a span closes only when no span is being created under it.
\* extract_jaeger_propagation reads the slot three times (tract_id, span_id,
\* parent_span_id), through with_otel_span each time.
StartCallback(w, op, id) ==
    /\ ~fault
    /\ inflight[w] = Idle
    /\ id \in live
    /\ ~Busy(id)
    /\ op = "on_close" => ~CreatingUnder(id)
    /\ inflight' = [inflight EXCEPT ![w] =
            [pc |-> "lock_span", op |-> op, id |-> id, parent |-> NoId,
             left |-> IF op = "extract_jaeger_propagation" THEN 3 ELSE 1]]
    /\ UNCHANGED << layer, host, records, fault, stdout, wire, ghost, codec,
                    extensions >>

\* extensions_mut(): worker w takes the lock it wants once nobody holds it.
\* on_new_span locks the new span's slot and then, still holding it, the
\* slot of the current span.
Lock(w) ==
    /\ inflight[w].pc \in {"lock_span", "lock_parent"}
    /\ extensions[Wanted(w)] = NoWorker
    /\ extensions' = [extensions EXCEPT ![Wanted(w)] = w]
    /\ inflight' = [inflight EXCEPT ![w].pc =
            IF /\ inflight[w].pc = "lock_span"
               /\ inflight[w].op = "on_new_span"
               /\ inflight[w].parent # NoId
            THEN "lock_parent" ELSE "body"]
    /\ UNCHANGED << layer, host, records, fault, stdout, wire, ghost, codec >>

\* What parse_jaeger_trace_id makes of the headers that arrive from outside.
StaticPairs == { parse_jaeger_trace_id(h) : h \in StaticHeaders }

\* The store after the body of the callback cb ran under its locks.
BodyStores(cb) ==
    IF cb.op = "on_new_span"
    THEN { insert(records, cb.id,
                IF cb.parent # NoId
                THEN ChildSpan(records[cb.parent], sampler, a, s, cb.id)
                ELSE RootSpan(t, sampler, a, s, cb.id)) :
            t \in GenTraceIds, s \in GenSpanIds(cb.id), a \in ValueSets }
    ELSE IF cb.op = "on_record"
    THEN { [records EXCEPT ![cb.id] = record(@, v)] : v \in RecordSets }
    ELSE IF cb.op = "set_parent"
    THEN { [records EXCEPT ![cb.id] = PatchSpan(@, p)] : p \in StaticPairs }
    ELSE IF cb.op = "on_close"
    THEN { CloseStore(records, cb.id) }
    ELSE { records }

\* The body of the callback runs and the callback returns, dropping its
\* guards.
Return(w) ==
    /\ inflight[w].pc = "body"
    /\ records' \in BodyStores(inflight[w])
    /\ live' = DOMAIN records'
    /\ extensions' = drop(extensions, w)
    /\ inflight' = [inflight EXCEPT ![w] =
            IF inflight[w].left > 1
            THEN [inflight[w] EXCEPT !.pc = "lock_span", !.left = @ - 1]
            ELSE Idle]
    /\ UNCHANGED << layer, stack, nextId, fault, stdout, wire, ghost, codec >>

NextLocks ==
    \/ \E w \in Workers, p \in Ids \cup {NoId} :
            nextId <= MaxSpans /\ StartNewSpan(w, p)
    \/ \E w \in Workers, op \in SlotCallbacks, id \in Ids : StartCallback(w, op, id)
    \/ \E w \in Workers : Lock(w)
    \/ \E w \in Workers : Return(w)

\* A worker that has a callback to run is scheduled, and a lock that keeps
\* becoming free is eventually given to a worker that waits for it.
FairLocks == \A w \in Workers : SF_vars(Lock(w)) /\ WF_vars(Return(w))

SpecLocks == InitChain /\ [][NextLocks]_vars /\ FairLocks

\* ------------------------------------------------------------ the parser
\* Header values given to parse_jaeger_trace_id: four numbers printed in
\* decimal (with or without a leading zero on the two ids), and raw texts of
\* one to five fields.
Join(fields) ==
    LET RECURSIVE J(_)
        J(i) == IF i = Len(fields) THEN fields[i]
                ELSE fields[i] \o << ":" >> \o J(i + 1)
    IN  J(1)

Pad(z, n) == IF z THEN << "0" >> \o to_string(n) ELSE to_string(n)

TraceSample == {0, 1, 9, 10, U128Max - 1, U128Max, U128Max + 1}
SpanSample == {0, 1, U64Max, U64Max + 1}
ParentSample == {0, 1, U64Max}
FlagSample == {0, 1}

PrintedInputs ==
    { [text |-> Join(<< Pad(z, t), Pad(z, sp), to_string(p), to_string(f) >>),
       from |-> Some(<< t, sp, p, f >>)] :
        t \in TraceSample, sp \in SpanSample, p \in ParentSample,
        f \in FlagSample, z \in BOOLEAN }

RawFields ==
    { << >>, << "x" >>, << "1", "x" >>, << "+", "5" >>, << "-", "1" >>,
      << "5" >>, << "+" >> }

RawInputs ==
    { [text |-> Join(fs), from |-> None] :
        fs \in UNION { [1..n -> RawFields] : n \in 1..5 } }
        \cup { [text |-> << >>, from |-> None],
               [text |-> << "g", "a", "r", "b", "a", "g", "e" >>, from |-> None] }

InitCodec ==
    /\ sampler = "OTelSampler"
    /\ event_export_mode = "SpanEvent"
    /\ live = {}
    /\ stack = << >>
    /\ nextId = 1
    /\ records = EmptyMap
    /\ fault = FALSE
    /\ stdout = << >>
    /\ wire = << >>
    /\ samplerCalls = 0
    /\ rootsCreated = 0
    /\ hist = EmptyMap
    /\ wireSrc = None
    /\ onEnd = FALSE
    /\ \E i \in PrintedInputs \cup RawInputs : header = i.text /\ origin = i.from
    /\ parsed = None
    /\ cpc = "start"
    /\ extensions = [id \in Ids |-> NoWorker]
    /\ inflight = [w \in Workers |-> Idle]

Parse ==
    /\ cpc = "start"
    /\ parsed' = Some(parse_jaeger_trace_id(header))
    /\ cpc' = "parsed"
    /\ UNCHANGED << layer, host, records, fault, stdout, wire, ghost, header, origin, workers >>

NextCodec == Parse

SpecCodec == InitCodec /\ [][NextCodec]_vars

\* ================================================================== claims
ZeroPair == [trace_id |-> 0, span_id |-> 0]

\* C5: parse_jaeger_trace_id of a header "T:S:P:F" of four decimal fields
\* returns trace_id = T and span_id = S, for every T that fits TraceId and
\* every S that fits SpanId.
C5_DecodeReturnsTraceAndSpan ==
    (/\ cpc = "parsed"
     /\ origin # None
     /\ origin[1][1] <= U128Max
     /\ origin[1][2] <= U64Max)
        => parsed[1] = [trace_id |-> origin[1][1], span_id |-> origin[1][2]]

\* A header printed from the largest trace id and the largest span id has
\* been parsed, and the largest trace id came back.
C5_Witness ==
    /\ cpc = "parsed"
    /\ origin # None
    /\ origin[1][1] = U128Max
    /\ origin[1][2] = U64Max
    /\ parsed[1].trace_id = U128Max

\* C6: parse_jaeger_trace_id returns the zero pair for every malformed
\* header: one whose field count is not 4, or whose trace id field or span
\* id field does not parse (the other may be valid), or the empty string.
C6_Malformed ==
    LET parts == split(header)
    IN  \/ Len(parts) # 4
        \/ ~from_str_radix(parts[1], U128Max).ok
        \/ ~from_str_radix(parts[2], U64Max).ok

C6_MalformedYieldsZeroPair ==
    (cpc = "parsed" /\ C6_Malformed) => parsed[1] = ZeroPair

\* A step of on_new_span that stored a record for the span nextId.
Created == nextId' = nextId + 1 /\ ~fault'

C2_SamplerCalledForRootsOnly == samplerCalls = rootsCreated

C4_RootIsSampledOnItsOwnTraceId ==
    \A id \in DOMAIN records :
        (hist[id].lparent = NoId /\ hist[id].injected = None)
            => /\ records[id].trace_id = hist[id].trace0
               /\ records[id].parent_span_id = None
               /\ records[id].is_recording = should_sample(sampler, hist[id].trace0)

\* A root span is stored whose sampler decided from the trace id and
\* declined it, beside a root span it accepted.
C4_Witness ==
    /\ sampler = "TraceIdRatio"
    /\ \E a \in DOMAIN records, b \in DOMAIN records :
        /\ hist[a].lparent = NoId /\ hist[a].injected = None
        /\ hist[b].lparent = NoId /\ hist[b].injected = None
        /\ records[a].is_recording
        /\ ~records[b].is_recording

\* C10: on_close of a span removes its record only: no callback panics,
\* every other record is left as it was, and so a child whose parent has
\* been closed still has the trace id and the parent span id it copied from
\* the parent when it was created.
C10_CloseRemovesOneRecord ==
    \A a \in DOMAIN records \ DOMAIN records' :
        /\ ~fault'
        /\ \A b \in DOMAIN records \ {a} :
                b \in DOMAIN records' /\ records'[b] = records[b]

C10_ChildKeepsCopy ==
    \A b \in DOMAIN records :
        (hist[b].lparent # NoId /\ hist[b].injected = None)
            => /\ records[b].trace_id = hist[b].trace0
               /\ records[b].parent_span_id = hist[b].pspan

C10_ChildOutlivesParent ==
    /\ [](~fault /\ C10_ChildKeepsCopy /\ (\A id \in live : HasRecord(id)))
    /\ [][C10_CloseRemovesOneRecord]_vars

\* The parent of a stored child has been closed, and an event of the child
\* has been routed since.
C10_Witness ==
    /\ ~fault
    /\ \E b \in DOMAIN records :
        /\ hist[b].lparent # NoId
        /\ hist[b].lparent \notin live
        /\ hist[b].injected = None
        /\ Len(stdout) = 1
        /\ stdout[1].kind # "Span"
        /\ stdout[1].span_id = records[b].span_id

\* The spans a span descends from, by the span that was current when each
\* was created.
RECURSIVE Ancestors(_)
Ancestors(c) ==
    IF hist[c].lparent = NoId THEN {}
    ELSE {hist[c].lparent} \cup Ancestors(hist[c].lparent)

\* The spans on the path from x down to c, both excluded.
Between(x, c) == Ancestors(c) \ (Ancestors(x) \cup {x})

\* set_parent was applied to x, and never after a child of x was created.
OverriddenFirst(x) == hist[x].injected # None /\ ~hist[x].late

\* C9 as stated: if set_parent is applied to X before any child of X is
\* created, every span created afterwards as a descendant of X is created
\* with the trace id of the header given to X.
C9_DescendantsTakeInjectedTrace ==
    \A x \in DOMAIN hist, c \in DOMAIN hist :
        (x \in Ancestors(c) /\ OverriddenFirst(x))
            => hist[c].trace0 = hist[x].injected[1]

\* C9 as amended: the same, for the descendants of X with no span between X
\* and them that was itself given a remote parent; such a descendant also
\* keeps that trace id for as long as set_parent is not applied to it.
C9_DescendantsTakeInjectedTraceUnlessOverridden ==
    \A x \in DOMAIN hist, c \in DOMAIN hist :
        (/\ x \in Ancestors(c)
         /\ OverriddenFirst(x)
         /\ \A m \in Between(x, c) : hist[m].injected = None)
            => /\ hist[c].trace0 = hist[x].injected[1]
               /\ (HasRecord(c) /\ hist[c].injected = None)
                    => records[c].trace_id = hist[x].injected[1]

\* A grandchild of an overridden root is stored with the trace id of the
\* header, which is not the trace id the root was generated with.
C9_Witness ==
    \E x \in DOMAIN hist, c \in DOMAIN records :
        /\ x \in Ancestors(c)
        /\ Between(x, c) # {}
        /\ OverriddenFirst(x)
        /\ \A m \in Between(x, c) : hist[m].injected = None
        /\ hist[c].injected = None
        /\ records[c].trace_id = hist[x].injected[1]
        /\ records[c].trace_id # hist[x].trace0

\* A field of decimal digits.
IsDecimal(f) == f # << >> /\ \A i \in 1..Len(f) : IsDigit(f[i])

\* C7: extract_jaeger_propagation never fails and yields four
\* colon-separated decimal fields, the third "0" when the span has no
\* parent and the fourth "0" or "1", whether or not the span has a record.
C7_HeaderHasFourDecimalFields ==
    /\ ~fault
    /\ wire # << >> =>
        LET f == split(wire)
        IN  /\ Len(f) = 4
            /\ \A i \in 1..4 : IsDecimal(f[i])
            /\ f[4] \in { << "0" >>, << "1" >> }
            /\ (wireSrc = None \/ wireSrc[1].parent_span_id = None)
                    => f[3] = << "0" >>

\* A header has been built from a handle with no record, while another
\* span is live.
C7_Witness ==
    /\ wireSrc = None
    /\ wire = << "0", ":", "0", ":", "0", ":", "1" >>
    /\ live # {}

\* C8: after set_parent(Y, h) with h the header extract_jaeger_propagation
\* built from a stored record X, Y has X's trace_id, and X's span_id as
\* its parent_span_id.
C8_RemoteChildJoinsSendersTrace ==
    \A y \in DOMAIN records :
        hist[y].src # None
            => /\ records[y].trace_id = hist[y].src[1].trace_id
               /\ records[y].parent_span_id = Some(hist[y].src[1].span_id)

\* A span has been given the header of another span's record, and left the
\* trace it was generated in for the sender's.
C8_Witness ==
    \E y \in DOMAIN records :
        /\ hist[y].src # None
        /\ hist[y].src[1].span_id # records[y].span_id
        /\ records[y].trace_id # hist[y].trace0
        /\ records[y].trace_id = hist[y].src[1].trace_id

\* C11: for an event whose owning record has is_recording = FALSE, mode
\* LogRecord emits exactly one log record carrying the owner's span_id and
\* mode SpanEvent emits nothing; for an owner with is_recording = TRUE,
\* mode SpanEvent emits exactly one span event and mode LogRecord exactly
\* one log record.
C11_EventRoutingIsAsymmetric ==
    [][\A ev \in Events :
        (on_event(ev) /\ EventSpan(ev) # NoId /\ HasRecord(EventSpan(ev))) =>
            LET owner == records[EventSpan(ev)]
            IN  IF event_export_mode = "LogRecord"
                THEN stdout' = << [kind |-> "LogRecord", span_id |-> owner.span_id] >>
                ELSE IF owner.is_recording
                THEN stdout' = << [kind |-> "SpanEvent", span_id |-> owner.span_id] >>
                ELSE stdout' = << >>]_vars

\* In mode LogRecord, a log record has been emitted for a stored span that
\* is not recording.
C11_Witness ==
    /\ event_export_mode = "LogRecord"
    /\ Len(stdout) = 1
    /\ stdout[1].kind = "LogRecord"
    /\ \E id \in DOMAIN records :
        /\ records[id].span_id = stdout[1].span_id
        /\ ~records[id].is_recording

\* C12: on_close(id) removes the record of id (no live span is without a
\* record and no record without a live span), prints the finished record
\* whether or not it is recording, reaches the hand-off to the span
\* processors only if it is recording, raises no fault, and leaves the
\* records of all other spans unchanged.
C12_CloseStep ==
    \A id \in DOMAIN records \ DOMAIN records' :
        /\ ~fault'
        /\ id \notin live'
        /\ Len(stdout') = 1
        /\ stdout'[1].kind = "Span"
        /\ [stdout'[1].span EXCEPT !.end_time = records[id].end_time] = records[id]
        /\ stdout'[1].span.end_time >= records[id].start_time
        /\ onEnd' => records[id].is_recording
        /\ \A b \in DOMAIN records \ {id} :
                b \in DOMAIN records' /\ records'[b] = records[b]

C12_CloseRemovesPrintsAndGatesExport ==
    /\ [](DOMAIN records = live)
    /\ [][C12_CloseStep]_vars

\* A span that is not recording has been closed: its record is printed and
\* gone, and the hand-off was not reached.
C12_Witness ==
    /\ Len(stdout) = 1
    /\ stdout[1].kind = "Span"
    /\ ~stdout[1].span.is_recording
    /\ ~onEnd
    /\ \A id \in DOMAIN records : records[id].span_id # stdout[1].span.span_id

\* C16: on_event routes an event to its explicit parent when the registry
\* holds it, even if another span is current; otherwise, if the event is
\* contextual, to the current span; and when neither resolves it prints
\* nothing.  In no case does it raise a fault or change a record.
C16_EventOwnerResolution ==
    [][\A ev \in Events :
        on_event(ev) =>
            LET explicit == ev.parent # None /\ ev.parent[1] \in live
                active == ev.contextual /\ stack # << >>
                owner == IF explicit THEN ev.parent[1]
                         ELSE IF active THEN stack[Len(stack)]
                         ELSE NoId
            IN  /\ ~fault'
                /\ records' = records
                /\ owner = NoId => stdout' = << >>
                /\ owner # NoId =>
                    /\ \A i \in 1..Len(stdout') :
                            stdout'[i].span_id = records[owner].span_id
                    /\ (event_export_mode = "LogRecord" \/ records[owner].is_recording)
                            => Len(stdout') = 1]_vars

\* An event has been routed to a span that is not the current one, while a
\* span is current.
C16_Witness ==
    /\ Len(stdout) = 1
    /\ stdout[1].kind \in {"SpanEvent", "LogRecord"}
    /\ current_span # NoId
    /\ HasRecord(current_span)
    /\ records[current_span].span_id # stdout[1].span_id

\* C17: when set_parent changes the trace id of a span X, the children X
\* already has keep their records, so a child created between the start of
\* X and the override keeps the trace id it copied from X at its creation
\* (unless set_parent was applied to the child itself): a live child's
\* trace_id then differs from its live parent's while its parent_span_id is
\* X's span_id.
C17_ChildrenKeepPreOverrideTrace ==
    [][\A x \in DOMAIN records \cap DOMAIN records' :
        records'[x].trace_id # records[x].trace_id =>
            \A c \in DOMAIN records \ {x} :
                hist[c].lparent = x =>
                    /\ c \in DOMAIN records'
                    /\ records'[c] = records[c]
                    /\ hist[c].injected = None
                            => records'[c].trace_id = hist[c].trace0]_vars

\* The race has happened: a live child names its live parent's span_id and
\* is in the trace the parent had before its override.
C17_Witness ==
    \E c \in DOMAIN records, x \in DOMAIN records :
        /\ c \in live /\ x \in live
        /\ hist[c].lparent = x
        /\ hist[x].late
        /\ records[c].parent_span_id = Some(records[x].span_id)
        /\ records[c].trace_id # records[x].trace_id
        /\ records[c].trace_id = hist[c].trace0

\* C13: on_record merges the field updates into the attributes, last write
\* winning per key: after the call every key of the update maps to the
\* update's value, every other key keeps its value, no key is lost, and an
\* update whose key/value pairs the record already holds (the same update
\* applied a second time) leaves the record as it is.
C13_RecordIsLastWriteWins ==
    [][\A id \in Ids, v \in FieldUpdates :
        (HasRecord(id) /\ on_record(id, v)) =>
            LET old == records[id].attributes
                new == records'[id].attributes
            IN  /\ DOMAIN new = DOMAIN old \cup DOMAIN v
                /\ \A k \in DOMAIN v : new[k] = v[k]
                /\ \A k \in DOMAIN old \ DOMAIN v : new[k] = old[k]
                /\ (\A k \in DOMAIN v : k \in DOMAIN old /\ old[k] = v[k])
                        => records' = records]_vars

\* A field the span was created with has been overwritten by a later
\* record call, and a field recorded later is held beside it.
C13_Witness ==
    \E id \in DOMAIN records :
        /\ "attribute1" \in DOMAIN records[id].attributes
        /\ records[id].attributes["attribute1"] = "value3"
        /\ "attribute3" \in DOMAIN records[id].attributes
        /\ records[id].attributes["attribute3"] = "v1"

\* C14: on_record for a span id with no stored record raises no fault and
\* leaves the record store unchanged.
C14_MissingRecordIsNoOp ==
    [][\A id \in Ids, v \in RecordSets :
        (~HasRecord(id) /\ on_record(id, v)) =>
            (~fault' /\ records' = records)]_vars

\* A token of the wrong field count, or with a field that is not a decimal
\* number.
MalformedToken(h) ==
    LET parts == split(h)
    IN  Len(parts) # 4 \/ \E i \in 1..4 : ~IsDecimal(parts[i])

\* C15: set_parent(X, token) with a malformed token raises no fault and
\* leaves X a root span: X.parent_span_id is None.
C15_MalformedTokenYieldsRoot ==
    [][\A id \in Ids, h \in StaticHeaders :
        (MalformedToken(h) /\ HasRecord(id) /\ set_parent(id, h)) =>
            (~fault' /\ records'[id].parent_span_id = None)]_vars

\* C18: a stored record never names itself as its parent, and a stored
\* record it names as its parent was created before it.
C18_ParentRelationIsAcyclic ==
    \A a \in DOMAIN records, b \in DOMAIN records :
        records[a].parent_span_id = Some(records[b].span_id)
            => records[b].start_time < records[a].start_time

\* C19: from creation to close no step changes a record's span_id,
\* is_recording, name or start_time; a step that changes its trace_id or
\* parent_span_id is a set_parent on that span; and set_parent leaves its
\* attributes unchanged.
C19_IdentityFieldsAreFramed ==
    [][\A id \in DOMAIN records \cap DOMAIN records' :
        LET old == records[id]
            new == records'[id]
            overridden == \E h \in StaticHeaders : set_parent(id, h)
        IN  /\ new.span_id = old.span_id
            /\ new.is_recording = old.is_recording
            /\ new.name = old.name
            /\ new.start_time = old.start_time
            /\ (new.trace_id # old.trace_id \/ new.parent_span_id # old.parent_span_id)
                    => overridden
            /\ new.attributes # old.attributes => ~overridden]_vars

\* A span that is not recording and holds a recorded field has been moved
\* to the trace of a header, and a header has been built from it since: it
\* still is not recording and still holds the field.
C19_Witness ==
    \E id \in DOMAIN records :
        /\ hist[id].injected # None
        /\ records[id].trace_id # hist[id].trace0
        /\ ~records[id].is_recording
        /\ "attribute3" \in DOMAIN records[id].attributes
        /\ wireSrc = Some(Identity(records[id]))

WaitsFor(w, v) == Wanted(w) # NoId /\ extensions[Wanted(w)] = v

\* The workers w waits for, directly or through others (at most n links).
RECURSIVE Blockers(_, _)
Blockers(w, n) ==
    IF n = 0 THEN {}
    ELSE LET direct == { v \in Workers : WaitsFor(w, v) }
         IN  direct \cup UNION { Blockers(v, n - 1) : v \in direct }

WaitCycle == \E w \in Workers : w \in Blockers(w, MaxWorkers)

\* Only on_new_span holds two locks, the new span's taken first and the
\* current span's second; every other callback holds at most the lock of
\* its own span; an idle worker holds none.
LockDiscipline ==
    \A w \in Workers :
        LET cb == inflight[w]
        IN  /\ Held(w) \subseteq {cb.id, cb.parent} \ {NoId}
            /\ cb.op # "on_new_span" => Held(w) \subseteq {cb.id}
            /\ cb.parent \in Held(w) => cb.id \in Held(w)
            /\ cb.pc = "idle" => Held(w) = {}

====
